---- MODULE Spec2Model ----
(***************************************************************************)
(* Model of the virtual-assistant bootstrap of ai-virtual-assistant:       *)
(*   backend/utils/agent_initializer.py  (the start-up reconciler)         *)
(*   backend/routes/virtual_assistants.py (the assistant CRUD handlers)    *)
(*                                                                         *)
(* Two stores are involved.  The reconciler reads the names of the agents  *)
(* registered with the LlamaStack client (client.agents.list()), while the *)
(* CRUD handlers read and write the relational tables virtual_assistants,  *)
(* virtual_assistant_knowledge_bases and virtual_assistant_tools.  The     *)
(* knowledge-base resolver reads and writes the knowledge_bases table.     *)
(***************************************************************************)
EXTENDS Integers, Sequences, FiniteSets, Bags, TLC

VARIABLES
    config,              \* the parsed agent_config.yaml: config["agents"]
    llama_agents,        \* names returned by client.agents.list()
    knowledge_bases,     \* bag of rows of table knowledge_bases
    virtual_assistants,  \* set of rows of table virtual_assistants
    va_kb_links,         \* bag of rows of virtual_assistant_knowledge_bases
    va_tool_links,       \* bag of rows of virtual_assistant_tools
    next_id,             \* next fresh primary key of virtual_assistants
    rec,                 \* the reconciler coroutines, one record per process
    runs,                \* reconciler runs started so far
    ext_failed,          \* history: some external collaborator call has raised
    http,                \* the CRUD request being served
    mcp_servers,         \* ids of the rows of table mcp_servers
    model_servers,       \* model names of the rows of table model_servers
    reader               \* a second client: a GET / served beside the request

vars == << config, llama_agents, knowledge_bases, virtual_assistants,
           va_kb_links, va_tool_links, next_id, rec, runs, ext_failed,
           http, mcp_servers, model_servers, reader >>

\* tables no handler of these two files writes
catalog == << mcp_servers, model_servers >>

dbvars == << knowledge_bases, virtual_assistants, va_kb_links, va_tool_links,
             next_id >>

---------------------------------------------------------------------------
(* Bounds of the model *)

MaxAgents == 2      \* descriptors in the configuration file
MaxItems  == 2      \* tool plus knowledge-base entries in the whole file
MaxRefs   == 2      \* length of a reference-id list in a CRUD request
MaxRows   == 2      \* rows ever inserted into virtual_assistants by requests

---------------------------------------------------------------------------
(* Input domains *)

Missing == "<missing>"         \* a key the YAML mapping does not have

AgentNames == {"a1", Missing}
ToolNames  == {"t1", "builtin::rag"}
KBNames    == {"kb1", "kb2"}
\* files is "none" (key absent or empty list) or "list" (a non-empty list of
\* file names)
KBEntries == [name : KBNames, files : {"none", "list"}]

RAG == "builtin::rag"

RECURSIVE SeqsUpTo(_, _)
SeqsUpTo(S, n) ==
    IF n = 0 THEN {<< >>}
    ELSE LET shorter == SeqsUpTo(S, n - 1)
         IN  shorter \cup {Append(s, x) : s \in shorter, x \in S}

Weight(d) == Len(d.mcp_tools) + Len(d.knowledge_bases)

\* descriptors with at most w tool and knowledge-base entries
Descriptors(w) ==
    {d \in [name : AgentNames,
            mcp_tools : SeqsUpTo(ToolNames, w),
            knowledge_bases : SeqsUpTo(KBEntries, w)] : Weight(d) <= w}

\* desired-state lists of exactly n descriptors with at most w entries in all
RECURSIVE ConfigsOf(_, _)
ConfigsOf(n, w) ==
    IF n = 0 THEN {<< >>}
    ELSE UNION {{<<d>> \o c : c \in ConfigsOf(n - 1, w - Weight(d))} :
                d \in Descriptors(w)}

Configs == UNION {ConfigsOf(n, MaxItems) : n \in 0..MaxAgents}

---------------------------------------------------------------------------
(* convert_yaml_agent_to_schema *)

\* yaml_agent.get("name", "Unnamed Agent")
AgentName(yaml_agent) ==
    IF yaml_agent.name = Missing THEN "Unnamed Agent" ELSE yaml_agent.name

\* the loop over mcp_tools: a nameless tool and the reserved token are
\* dropped, every other tool becomes the toolgroup id mcp::<name>
KeepTool(tool_name) == tool_name # Missing /\ tool_name # RAG

ConvertTools(mcp_tools) ==
    LET kept == SelectSeq(mcp_tools, KeepTool)
    IN  [i \in 1..Len(kept) |-> "mcp::" \o kept[i]]

\* the loop over knowledge_bases: every named entry contributes its name
ConvertKnowledgeBases(kbs) ==
    LET named == SelectSeq(kbs, LAMBDA kb : kb.name # Missing)
    IN  [i \in 1..Len(named) |-> named[i].name]

AddRagToolAlways(tools, knowledge_base_ids) == Append(tools, RAG)

AddRagToolNever(tools, knowledge_base_ids) == tools

\* "Add RAG tool if knowledge bases are specified"
AddRagTool(tools, knowledge_base_ids) ==
    IF knowledge_base_ids # << >> THEN Append(tools, RAG) ELSE tools

convert_yaml_agent_to_schema(yaml_agent) ==
    LET ids == ConvertKnowledgeBases(yaml_agent.knowledge_bases)
    IN  [name |-> AgentName(yaml_agent),
         tools |-> AddRagTool(ConvertTools(yaml_agent.mcp_tools), ids),
         knowledge_base_ids |-> ids]

\* schemas.VirtualAssistantCreate(**agent_config): the request object.  The
\* dictionary has no mcp_server_ids key, so that field takes its default.
VirtualAssistantCreate(agent_config) ==
    [name |-> agent_config.name,
     tools |-> agent_config.tools,
     knowledge_base_ids |-> agent_config.knowledge_base_ids,
     mcp_server_ids |-> << >>]

NoRequest ==
    [name |-> Missing, tools |-> << >>, knowledge_base_ids |-> << >>,
     mcp_server_ids |-> << >>]

HasRagTool(va) == va.tools # << >> /\ \E i \in 1..Len(va.tools) : va.tools[i] = RAG

\* the if / elif / elif / else after has_rag_tool is computed
RagBranch(va) ==
    IF HasRagTool(va) /\ va.knowledge_base_ids # << >> THEN "resolve"
    ELSE IF HasRagTool(va) THEN "rag_without_kbs"
    ELSE IF va.knowledge_base_ids # << >> THEN "kbs_without_rag"
    ELSE "plain"

ClearIdsOnly(va) == [va EXCEPT !.knowledge_base_ids = << >>]

\* the fallback of initialize_agents_from_config when the resolver raises
WithoutRag(va) ==
    [va EXCEPT !.knowledge_base_ids = << >>,
               !.tools = SelectSeq(va.tools, LAMBDA t : t # RAG)]

---------------------------------------------------------------------------
(* The relational store *)

KBRow(name, status) == [vector_db_name |-> name, status |-> status]

KBNamesIn(table) == {r.vector_db_name : r \in BagToSet(table)}

\* knowledge_bases.vector_db_name is unique: an INSERT of a name the table
\* holds is rejected by the store
CanInsertKB(table, name) == name \notin KBNamesIn(table)

InsertKB(table, name, status) == table (+) SetToBag({KBRow(name, status)})

KBLink(va_id, kb_id) == [virtual_assistant_id |-> va_id, knowledge_base_id |-> kb_id]

ToolLink(va_id, mcp_id) == [virtual_assistant_id |-> va_id, mcp_server_id |-> mcp_id]

RECURSIVE SeqToBag(_)
SeqToBag(s) ==
    IF s = << >> THEN EmptyBag ELSE SetToBag({Head(s)}) (+) SeqToBag(Tail(s))

\* the link rows one request adds to the session
KBLinksOf(va_id, ids) == SeqToBag([i \in 1..Len(ids) |-> KBLink(va_id, ids[i])])

ToolLinksOf(va_id, ids) == SeqToBag([i \in 1..Len(ids) |-> ToolLink(va_id, ids[i])])

IsSetBag(b) == \A r \in BagToSet(b) : CopiesIn(r, b) = 1

AcceptAnyCommit(table) == TRUE

\* (assistant, target) is the key of a link table: a commit that would leave
\* two rows with one key is rejected by the store and rolled back
CommitAccepted(table) == IsSetBag(table)

AssistantIds == {a.id : a \in virtual_assistants}

LinksOfKB(va_id) == {r \in BagToSet(va_kb_links) : r.virtual_assistant_id = va_id}

LinksOfTool(va_id) == {r \in BagToSet(va_tool_links) : r.virtual_assistant_id = va_id}

---------------------------------------------------------------------------
(* The database handle a handler receives *)

\* FastAPI resolves Depends(get_db) to an AsyncSession for a routed request;
\* a direct Python call that passes no db leaves the parameter at its
\* default, the Depends marker object itself.
AsyncSessionAttrs == {"add", "commit", "refresh", "execute", "delete"}

DependsAttrs == {"dependency", "use_cache"}

HasAttr(db, attr) ==
    attr \in (IF db = "AsyncSession" THEN AsyncSessionAttrs ELSE DependsAttrs)

\* await create_virtual_assistant(va_create): no db argument is passed
ReconcilerDb == "Depends"

RoutedDb == "AsyncSession"

---------------------------------------------------------------------------
(* initialize_agents_from_config and create_knowledge_bases_from_config *)

Procs == {1, 2}

\* the application boots, and so runs the reconciler, at start-up and once
\* more at a restart
Boots == {"startup", "restart"}

Range(seq) == {seq[i] : i \in 1..Len(seq)}

InitialRec ==
    [pc |-> "idle", idx |-> 0, existing_names |-> {}, va_create |-> NoRequest,
     existing_kbs |-> {}, kbi |-> 0, state |-> << >>, resolved |-> {},
     resolver_raised |-> FALSE, cause |-> << >>, create_calls |-> << >>,
     kb_attempts |-> << >>]

\* the yaml_agent the for loop is at
Current(r) == config[r.idx]

SettleInPlace(r, outcome, cause) ==
    [r EXCEPT !.pc = "loop", !.state[r.idx] = outcome, !.cause[r.idx] = cause,
              !.va_create = NoRequest, !.existing_kbs = {}, !.kbi = 0,
              !.resolved = {}, !.resolver_raised = FALSE]

SettleUnrecorded(r, outcome, cause) ==
    [r EXCEPT !.pc = "loop", !.idx = @ + 1,
              !.va_create = NoRequest, !.existing_kbs = {}, !.kbi = 0,
              !.resolved = {}, !.resolver_raised = FALSE]

\* leaving the loop body for the next yaml_agent, the descriptor settled
Settle(r, outcome, cause) ==
    [r EXCEPT !.pc = "loop", !.state[r.idx] = outcome, !.cause[r.idx] = cause,
              !.idx = @ + 1,
              !.va_create = NoRequest, !.existing_kbs = {}, !.kbi = 0,
              !.resolved = {}, !.resolver_raised = FALSE]

NeverExists(r) == FALSE

ExistsOrTriedInRun(r) ==
    AgentName(Current(r)) \in
        r.existing_names
          \cup {AgentName(config[r.create_calls[c].idx]) : c \in 1..Len(r.create_calls)}

\* "if agent_name in existing_names: ... continue"
AlreadyExists(r) == AgentName(Current(r)) \in r.existing_names

AbortOnDescriptorError(r, cause) ==
    [Settle(r, "FAILED", cause) EXCEPT !.pc = "raised"]

\* "except Exception as e: logger.error(...); continue"; cause names the
\* statement of the try block that raised
OnDescriptorError(r, cause) == Settle(r, "FAILED", cause)

\* "response = await create_virtual_assistant(va_create)" returned
OnDescriptorCreated(r) == Settle(r, "DONE", "")

\* the except branch around create_knowledge_bases_from_config
OnResolverError(r) ==
    [r EXCEPT !.va_create = WithoutRag(r.va_create), !.resolver_raised = TRUE,
              !.pc = "create", !.state[r.idx] = "MATERIALIZING"]

\* which branch of the resolver's loop body a knowledge-base entry takes
KbDecision(kb_config, knowledge_base_ids, existing) ==
    IF kb_config.name = Missing \/ kb_config.name \notin Range(knowledge_base_ids)
    THEN "skip_name"
    ELSE IF kb_config.files = "none" THEN "skip_nofiles"
    ELSE IF kb_config.files = "notlist" THEN "skip_notlist"
    ELSE IF kb_config.name \in existing THEN "exists"
    ELSE "create"

CurrentKb(r) == Current(r).knowledge_bases[r.kbi]

RaiseOnKbError(r) ==
    OnResolverError(
        [r EXCEPT !.kb_attempts = Append(@, [idx |-> r.idx, name |-> CurrentKb(r).name,
                                             outcome |-> "failed"])])

\* the resolver's inner except: "logger.error(...); continue"
OnKbError(r) ==
    [r EXCEPT !.kbi = @ + 1,
              !.kb_attempts = Append(@, [idx |-> r.idx, name |-> CurrentKb(r).name,
                                         outcome |-> "failed"])]

OnKbCreated(r, outcome) ==
    [r EXCEPT !.kbi = @ + 1,
              !.resolved = @ \cup {CurrentKb(r).name},
              !.kb_attempts = Append(@, [idx |-> r.idx, name |-> CurrentKb(r).name,
                                         outcome |-> outcome])]

\* load_agent_config, the empty check and client.agents.list()
StartRun(p) ==
    /\ rec[p].pc \in {"idle", "done", "raised"}
    /\ runs < Cardinality(Boots)
    /\ runs' = runs + 1
    /\ \/ /\ config = << >>
          /\ rec' = [rec EXCEPT ![p] = [InitialRec EXCEPT !.pc = "done"]]
          /\ UNCHANGED ext_failed
       \/ /\ config # << >>
          /\ rec' = [rec EXCEPT ![p] =
                        [InitialRec EXCEPT !.pc = "loop", !.idx = 1,
                                           !.existing_names = llama_agents,
                                           !.state = [i \in 1..Len(config) |-> "PENDING"],
                                           !.cause = [i \in 1..Len(config) |-> ""]]]
          /\ UNCHANGED ext_failed
       \/ /\ config # << >>      \* client.agents.list() raises: outer except
          /\ rec' = [rec EXCEPT ![p] =
                        [InitialRec EXCEPT !.pc = "raised",
                                           !.state = [i \in 1..Len(config) |-> "PENDING"],
                                           !.cause = [i \in 1..Len(config) |-> ""]]]
          /\ ext_failed' = TRUE
    /\ UNCHANGED << config, llama_agents, catalog, reader, dbvars, http >>

FinishRun(p) ==
    /\ rec[p].pc = "loop"
    /\ rec[p].idx > Len(config)
    /\ rec' = [rec EXCEPT ![p].pc = "done"]
    /\ UNCHANGED << config, llama_agents, catalog, reader, dbvars, runs, ext_failed, http >>

SkipExisting(p) ==
    /\ rec[p].pc = "loop"
    /\ rec[p].idx <= Len(config)
    /\ AlreadyExists(rec[p])
    /\ rec' = [rec EXCEPT ![p] = Settle(rec[p], "SKIPPED", "")]
    /\ UNCHANGED << config, llama_agents, catalog, reader, dbvars, runs, ext_failed, http >>

BeginDescriptor(p) ==
    /\ rec[p].pc = "loop"
    /\ rec[p].idx <= Len(config)
    /\ ~AlreadyExists(rec[p])
    /\ rec' = [rec EXCEPT ![p].pc = "convert", ![p].state[rec[p].idx] = "RESOLVING"]
    /\ UNCHANGED << config, llama_agents, catalog, reader, dbvars, runs, ext_failed, http >>

\* convert_yaml_agent_to_schema, the request object and the RAG branches
ConvertDescriptor(p) ==
    /\ rec[p].pc = "convert"
    /\ \/ LET va == VirtualAssistantCreate(convert_yaml_agent_to_schema(Current(rec[p])))
          IN  /\ rec' = [rec EXCEPT ![p] =
                    IF RagBranch(va) = "resolve"
                    THEN [@ EXCEPT !.va_create = va, !.pc = "resolve"]
                    ELSE [@ EXCEPT !.va_create = va, !.pc = "create",
                                   !.state[rec[p].idx] = "MATERIALIZING"]]
              /\ UNCHANGED ext_failed
       \/ \* the request object's validation raises
          /\ rec' = [rec EXCEPT ![p] = OnDescriptorError(rec[p], "convert")]
          /\ ext_failed' = TRUE
    /\ UNCHANGED << config, llama_agents, catalog, reader, dbvars, runs, http >>

\* "async with AsyncSessionLocal() as db" and the select of existing rows
ResolveOpen(p) ==
    /\ rec[p].pc = "resolve"
    /\ \/ /\ rec' = [rec EXCEPT ![p].existing_kbs = KBNamesIn(knowledge_bases),
                                ![p].kbi = 1, ![p].pc = "kbloop"]
          /\ UNCHANGED ext_failed
       \/ /\ rec' = [rec EXCEPT ![p] = OnResolverError(rec[p])]     \* the query raises
          /\ ext_failed' = TRUE
    /\ UNCHANGED << config, llama_agents, catalog, reader, dbvars, runs, http >>

KbPending(p) ==
    /\ rec[p].pc = "kbloop"
    /\ rec[p].kbi <= Len(Current(rec[p]).knowledge_bases)

KbSkip(p) ==
    /\ KbPending(p)
    /\ LET d == KbDecision(CurrentKb(rec[p]), rec[p].va_create.knowledge_base_ids,
                           rec[p].existing_kbs)
       IN  /\ d # "create"
           /\ rec' = [rec EXCEPT ![p].kbi = @ + 1,
                                 ![p].resolved = IF d = "exists"
                                                 THEN @ \cup {CurrentKb(rec[p]).name}
                                                 ELSE @]
    /\ UNCHANGED << config, llama_agents, catalog, reader, dbvars, runs, ext_failed, http >>

\* create_knowledge_base(kb_create), and on its failure the PENDING insert
KbCreate(p) ==
    /\ KbPending(p)
    /\ KbDecision(CurrentKb(rec[p]), rec[p].va_create.knowledge_base_ids,
                  rec[p].existing_kbs) = "create"
    /\ LET name == CurrentKb(rec[p]).name
       IN  \/ /\ CanInsertKB(knowledge_bases, name)        \* the API call succeeds
              /\ knowledge_bases' = InsertKB(knowledge_bases, name, "READY")
              /\ rec' = [rec EXCEPT ![p] = OnKbCreated(rec[p], "api")]
              /\ UNCHANGED ext_failed
           \/ /\ CanInsertKB(knowledge_bases, name)        \* it raises; fallback
              /\ knowledge_bases' = InsertKB(knowledge_bases, name, "PENDING")
              /\ rec' = [rec EXCEPT ![p] = OnKbCreated(rec[p], "pending")]
              /\ ext_failed' = TRUE
           \/ /\ rec' = [rec EXCEPT ![p] = OnKbError(rec[p])]  \* the insert raises too
              /\ ext_failed' = TRUE
              /\ UNCHANGED knowledge_bases
    /\ UNCHANGED << config, llama_agents, catalog, reader, virtual_assistants, va_kb_links,
                    va_tool_links, next_id, runs, http >>

KbDone(p) ==
    /\ rec[p].pc = "kbloop"
    /\ rec[p].kbi > Len(Current(rec[p]).knowledge_bases)
    /\ rec' = [rec EXCEPT ![p].pc = "create", ![p].state[rec[p].idx] = "MATERIALIZING"]
    /\ UNCHANGED << config, llama_agents, catalog, reader, dbvars, runs, ext_failed, http >>

\* "response = await create_virtual_assistant(va_create)"
CreateAssistant(p) ==
    /\ rec[p].pc = "create"
    /\ LET r   == rec[p]
           va  == r.va_create
           log == [r EXCEPT !.create_calls =
                      Append(@, [idx |-> r.idx, va |-> va, resolved |-> r.resolved,
                                 resolver_raised |-> r.resolver_raised])]
           kbl == va_kb_links (+) KBLinksOf(next_id, va.knowledge_base_ids)
           tll == va_tool_links (+) ToolLinksOf(next_id, va.mcp_server_ids)
       IN  IF ~HasAttr(ReconcilerDb, "add")
           THEN /\ rec' = [rec EXCEPT ![p] = OnDescriptorError(log, "create")]
                /\ UNCHANGED << virtual_assistants, va_kb_links, va_tool_links, next_id >>
           ELSE /\ virtual_assistants' =
                      virtual_assistants \cup {[id |-> next_id, name |-> va.name]}
                /\ next_id' = next_id + 1
                /\ IF CommitAccepted(kbl) /\ CommitAccepted(tll)
                   THEN /\ va_kb_links' = kbl
                        /\ va_tool_links' = tll
                        /\ rec' = [rec EXCEPT ![p] = OnDescriptorCreated(log)]
                   ELSE /\ UNCHANGED << va_kb_links, va_tool_links >>
                        /\ rec' = [rec EXCEPT ![p] = OnDescriptorError(log, "create")]
    /\ UNCHANGED << config, llama_agents, catalog, reader, knowledge_bases, runs, ext_failed, http >>

\* the body of a run once it has started
Step(p) ==
    \/ FinishRun(p)
    \/ SkipExisting(p)
    \/ BeginDescriptor(p)
    \/ ConvertDescriptor(p)
    \/ ResolveOpen(p)
    \/ KbSkip(p)
    \/ KbCreate(p)
    \/ KbDone(p)
    \/ CreateAssistant(p)

Reconciler(p) == StartRun(p) \/ Step(p)

\* the run of the first boot
FirstRun(p) == runs = 0 /\ StartRun(p)

---------------------------------------------------------------------------
(* The routed handlers of routes/virtual_assistants.py *)

\* the model every assistant of the model names
ModelName == "llama3.1-8b-instruct"

KBIds  == {"kb1"}

McpIds == {"m1"}

\* bodies of POST / and PUT /{va_id}
Requests ==
    [name : {"a1"}, tools : {<< >>},
     knowledge_base_ids : SeqsUpTo(KBIds, MaxRefs),
     mcp_server_ids : SeqsUpTo(McpIds, MaxRefs)]

\* ids a request path can carry: every key handed out so far or next
PathIds == 1..(MaxRows + 1)

IdleHttp == [op |-> "none", pc |-> "idle", id |-> 0, va |-> NoRequest, status |-> 0]

HttpFree == http.pc \in {"idle", "done"}

Targets(rows, field) == {r[field] : r \in rows}

DeferredCommit(rows, db_va) == rows

\* "db.add(db_va); await db.commit()": the new row is visible to every session
FirstCommit(rows, db_va) == rows \cup {db_va}

\* create_virtual_assistant up to its first commit and refresh
CreateEntity ==
    /\ HttpFree
    /\ next_id <= MaxRows
    /\ HasAttr(RoutedDb, "add")
    /\ \E va \in Requests :
          /\ virtual_assistants' =
                FirstCommit(virtual_assistants, [id |-> next_id, name |-> va.name])
          /\ http' = [op |-> "create", pc |-> "links", id |-> next_id, va |-> va,
                      status |-> 0]
    /\ next_id' = next_id + 1
    /\ UNCHANGED << config, llama_agents, catalog, reader, knowledge_bases, va_kb_links, va_tool_links,
                    rec, runs, ext_failed >>

\* create_virtual_assistant from the link loops to its second commit
CreateLinks ==
    /\ http.op = "create"
    /\ http.pc = "links"
    /\ LET kbl == va_kb_links (+) KBLinksOf(http.id, http.va.knowledge_base_ids)
           tll == va_tool_links (+) ToolLinksOf(http.id, http.va.mcp_server_ids)
       IN  IF CommitAccepted(kbl) /\ CommitAccepted(tll)
           THEN /\ va_kb_links' = kbl
                /\ va_tool_links' = tll
                /\ http' = [http EXCEPT !.pc = "done", !.status = 201]
           ELSE /\ UNCHANGED << va_kb_links, va_tool_links >>
                /\ http' = [http EXCEPT !.pc = "done", !.status = 500]
    /\ UNCHANGED << config, llama_agents, catalog, reader, knowledge_bases, virtual_assistants, next_id,
                    rec, runs, ext_failed >>

\* the rows "db.query(Link).filter_by(virtual_assistant_id=id).delete()" leaves
DeleteLinksOf(table, va_id) ==
    [r \in {x \in BagToSet(table) : x.virtual_assistant_id # va_id} |-> table[r]]

LinksDroppedOnError(table, va_id) == DeleteLinksOf(table, va_id)

\* the link rows after the handler raised: no statement of it has touched
\* them, and the session is closed without a commit
OnUpdateError(table, va_id) == table

\* update_virtual_assistant, the lookup: 404 for an absent id, otherwise the
\* scalar fields are assigned on the loaded row (pending in the session)
UpdateLoad ==
    /\ HttpFree
    /\ HasAttr(RoutedDb, "execute")
    /\ \E id \in PathIds :
          IF id \notin AssistantIds
          THEN http' = [op |-> "update", pc |-> "done", id |-> id,
                        va |-> NoRequest, status |-> 404]
          ELSE \E va \in Requests :
                  http' = [op |-> "update", pc |-> "replace", id |-> id, va |-> va,
                           status |-> 0]
    /\ UNCHANGED << config, llama_agents, catalog, reader, dbvars, rec, runs,
                    ext_failed >>

\* update_virtual_assistant, the link replacement.  The handler asks its
\* AsyncSession for `query`, the accessor of the synchronous Session: the
\* attribute lookup raises, nothing was committed and the request ends 500.
UpdateAssistant ==
    /\ http.op = "update"
    /\ http.pc = "replace"
    /\ LET id == http.id
           va == http.va
       IN  IF ~HasAttr(RoutedDb, "query")
           THEN /\ http' = [http EXCEPT !.pc = "done", !.status = 500]
                /\ va_kb_links' = OnUpdateError(va_kb_links, id)
                /\ va_tool_links' = OnUpdateError(va_tool_links, id)
                /\ UNCHANGED virtual_assistants
           ELSE LET kbl == DeleteLinksOf(va_kb_links, id)
                              (+) KBLinksOf(id, va.knowledge_base_ids)
                    tll == DeleteLinksOf(va_tool_links, id)
                              (+) ToolLinksOf(id, va.mcp_server_ids)
                IN  IF CommitAccepted(kbl) /\ CommitAccepted(tll)
                    THEN /\ va_kb_links' = kbl
                         /\ va_tool_links' = tll
                         /\ virtual_assistants' =
                               {a \in virtual_assistants : a.id # id}
                                  \cup {[id |-> id, name |-> va.name]}
                         /\ http' = [http EXCEPT !.pc = "done", !.status = 200]
                    ELSE /\ UNCHANGED << virtual_assistants, va_kb_links,
                                         va_tool_links >>
                         /\ http' = [http EXCEPT !.pc = "done", !.status = 500]
    /\ UNCHANGED << config, llama_agents, catalog, reader, knowledge_bases, next_id,
                    rec, runs, ext_failed >>

NoCascade(table, va_id) == table

\* the link rows of an assistant are deleted with it (the cascade of the
\* assistant's relationships)
Cascade(table, va_id) == DeleteLinksOf(table, va_id)

\* delete_virtual_assistant: the assistant's link rows go with it
DeleteAssistant ==
    /\ HttpFree
    /\ HasAttr(RoutedDb, "delete")
    /\ \E id \in PathIds :
          IF id \notin AssistantIds
          THEN /\ http' = [op |-> "delete", pc |-> "done", id |-> id, va |-> NoRequest,
                           status |-> 404]
               /\ UNCHANGED << virtual_assistants, va_kb_links, va_tool_links >>
          ELSE /\ virtual_assistants' = {a \in virtual_assistants : a.id # id}
               /\ va_kb_links' = Cascade(va_kb_links, id)
               /\ va_tool_links' = Cascade(va_tool_links, id)
               /\ http' = [op |-> "delete", pc |-> "done", id |-> id, va |-> NoRequest,
                           status |-> 204]
    /\ UNCHANGED << config, llama_agents, catalog, reader, knowledge_bases, next_id, rec, runs,
                    ext_failed >>

Crud ==
    \/ CreateEntity
    \/ CreateLinks
    \/ UpdateLoad
    \/ UpdateAssistant
    \/ DeleteAssistant

\* "if not va: raise HTTPException(status_code=404, ...)"
ReadStatus(id) == IF id \in AssistantIds THEN 200 ELSE 404

\* read_virtual_assistant
ReadAssistant ==
    /\ HttpFree
    /\ HasAttr(RoutedDb, "execute")
    /\ \E id \in PathIds :
          http' = [op |-> "read", pc |-> "done", id |-> id, va |-> NoRequest,
                   status |-> ReadStatus(id)]
    /\ UNCHANGED << config, llama_agents, catalog, reader, dbvars, rec, runs,
                    ext_failed >>

\* the names bound at module level of routes/virtual_assistants.py
ModuleNames ==
    {"APIRouter", "Depends", "HTTPException", "status", "AsyncSession", "select",
     "selectinload", "UUID", "List", "models", "schemas", "get_db", "router"}

\* what the not-found branches of get_virtual_assistant_components raise:
\* their first statement is log.error(...)
NotFoundRaises == IF "log" \in ModuleNames THEN "HTTPException" ELSE "NameError"

\* "except Exception as e: ... raise HTTPException(status_code=500, ...)":
\* NameError and HTTPException both derive from Exception
OnComponentsError(exc) == 500

\* get_virtual_assistant_components
GetComponents ==
    /\ HttpFree
    /\ HasAttr(RoutedDb, "execute")
    /\ \E id \in PathIds :
          LET found == id \in AssistantIds /\ ModelName \in model_servers
          IN  http' = [op |-> "components", pc |-> "done", id |-> id,
                       va |-> NoRequest,
                       status |-> IF found THEN 200
                                  ELSE OnComponentsError(NotFoundRaises)]
    /\ UNCHANGED << config, llama_agents, catalog, reader, dbvars, rec, runs,
                    ext_failed >>

\* get_virtual_assistants, one call of it followed for one assistant of its
\* loop: the select of the assistants, then one query per link table
\* the request in flight, if one is: what it is, where it is, on which id
Phase(h) ==
    IF h.pc \in {"idle", "done"} THEN << "none", "idle", 0 >>
    ELSE << h.op, h.pc, h.id >>

\* during: the request that was in flight while the link queries ran
IdleReader ==
    [pc |-> "idle", id |-> 0, kb_ids |-> {}, mcp_ids |-> {},
     during |-> Phase(IdleHttp)]

ListSelect ==
    /\ reader.pc = "idle"
    /\ \E a \in virtual_assistants :
          reader' = [IdleReader EXCEPT !.pc = "kb", !.id = a.id]
    /\ UNCHANGED << config, llama_agents, catalog, dbvars, rec, runs, ext_failed,
                    http >>

ListKb ==
    /\ reader.pc = "kb"
    /\ reader' = [reader EXCEPT !.pc = "mcp", !.during = Phase(http),
                                !.kb_ids = Targets(LinksOfKB(reader.id),
                                                   "knowledge_base_id")]
    /\ UNCHANGED << config, llama_agents, catalog, dbvars, rec, runs, ext_failed,
                    http >>

ListMcp ==
    /\ reader.pc = "mcp"
    /\ reader' = [reader EXCEPT !.pc = "done",
                                !.mcp_ids = Targets(LinksOfTool(reader.id),
                                                    "mcp_server_id")]
    /\ UNCHANGED << config, llama_agents, catalog, dbvars, rec, runs, ext_failed,
                    http >>

Reader == ListSelect \/ ListKb \/ ListMcp

---------------------------------------------------------------------------
(* Specifications *)

EmptyTables ==
    /\ virtual_assistants = {}
    /\ va_kb_links = EmptyBag
    /\ va_tool_links = EmptyBag
    /\ next_id = 1
    /\ http = IdleHttp
    /\ reader = IdleReader

\* the tool servers and the model server are registered
Catalog ==
    /\ mcp_servers = McpIds
    /\ model_servers = {ModelName}

IdleReconcilers ==
    /\ rec = [p \in Procs |-> InitialRec]
    /\ runs = 0
    /\ ext_failed = FALSE

\* first start-up: a configuration file and the agents LlamaStack already
\* knows; the tables are empty
Init ==
    /\ config \in Configs
    /\ llama_agents \in SUBSET {"a1"}
    /\ knowledge_bases = EmptyBag
    /\ Catalog
    /\ EmptyTables
    /\ IdleReconcilers

\* one boot of the application: the reconciler runs once, at start-up
Next == FirstRun(1) \/ Step(1)

Spec == Init /\ [][Next]_vars

\* the configurations without mcp_tools and with one knowledge-base name: a
\* tool entry takes no part in the control flow of a run, and a second name
\* adds no path to it
InitLive ==
    /\ Init
    /\ \A i \in 1..Len(config) :
          /\ config[i].mcp_tools = << >>
          /\ \A k \in 1..Len(config[i].knowledge_bases) :
                config[i].knowledge_bases[k].name = "kb1"

\* one boot in which every awaited call returns, so the coroutine always
\* takes its next step
SpecLive == InitLive /\ [][Next]_vars /\ WF_vars(Next)

\* a boot and a restart: the reconciler runs twice, one run after the other
NextTwice == Reconciler(1)

SpecTwice == Init /\ [][NextTwice]_vars

\* the serving application: requests against the assistant tables
InitCrud ==
    /\ config = << >>
    /\ llama_agents = {}
    /\ knowledge_bases = EmptyBag
    /\ Catalog
    /\ EmptyTables
    /\ IdleReconcilers

NextCrud == Crud

SpecCrud == InitCrud /\ [][NextCrud]_vars

\* the serving application, one request after the other; the knowledge bases
\* the requests refer to exist and the model server may or may not be
\* registered
InitApi ==
    /\ config = << >>
    /\ llama_agents = {}
    /\ knowledge_bases = SeqToBag([i \in 1..Cardinality(KBIds) |->
                                     KBRow(CHOOSE k \in KBIds : TRUE, "READY")])
    /\ mcp_servers = McpIds
    /\ model_servers \in SUBSET {ModelName}
    /\ EmptyTables
    /\ IdleReconcilers

NextApi == Crud \/ ReadAssistant \/ GetComponents

SpecApi == InitApi /\ [][NextApi]_vars

\* the serving application with a second client that lists the assistants
\* while a request is served
InitConc ==
    /\ InitApi
    /\ model_servers = {ModelName}

NextConc == Crud \/ Reader

SpecConc == InitConc /\ [][NextConc]_vars

\* two instances of the application booting at once over one configuration
\* file and one store: a single descriptor named a1
InitRace ==
    /\ config \in {c \in ConfigsOf(1, MaxItems) :
                     c[1].name = "a1" /\ c[1].mcp_tools = << >>}
    /\ llama_agents \in SUBSET {"a1"}
    /\ knowledge_bases = EmptyBag
    /\ Catalog
    /\ EmptyTables
    /\ IdleReconcilers

\* each instance runs the reconciler once
Boot(p) == (rec[p].pc = "idle" /\ StartRun(p)) \/ Step(p)

NextRace == \E p \in Procs : Boot(p)

SpecRace == InitRace /\ [][NextRace]_vars

\* the whole application: a configuration whose one descriptor names the same
\* knowledge base in every entry, reconciled while requests are served
InitAll ==
    /\ config \in {c \in ConfigsOf(1, MaxItems) :
                     /\ c[1].name = "a1"
                     /\ c[1].mcp_tools = << >>
                     /\ Len(c[1].knowledge_bases) = MaxItems
                     /\ \A i \in 1..MaxItems :
                           c[1].knowledge_bases[i] = [name |-> "kb1", files |-> "list"]}
    /\ llama_agents \in SUBSET {"a1"}
    /\ knowledge_bases = EmptyBag
    /\ Catalog
    /\ EmptyTables
    /\ IdleReconcilers

\* the reconciler is awaited while the application boots, before it serves
\* its first request
Running(p) == rec[p].pc \notin {"idle", "done", "raised"}

NextAll ==
    \/ http = IdleHttp /\ Reconciler(1)
    \/ ~Running(1) /\ Crud

SpecAll == InitAll /\ [][NextAll]_vars

---------------------------------------------------------------------------
(* Properties *)

Terminal == {"DONE", "SKIPPED", "FAILED"}

Ended(r) == r.pc \in {"done", "raised"}

CallsFor(r, i) == {k \in 1..Len(r.create_calls) : r.create_calls[k].idx = i}

AttemptsFor(r, i) == {k \in 1..Len(r.kb_attempts) : r.kb_attempts[k].idx = i}

\* assistants of one name the live system shows: rows of virtual_assistants
\* and the agent LlamaStack lists
AssistantCount(name) ==
    Cardinality({a \in virtual_assistants : a.name = name})
      + (IF name \in llama_agents THEN 1 ELSE 0)

\* C1: after two runs in sequence over one desired-state list, every external
\* call having succeeded, each descriptor name has exactly one assistant and
\* the second run left every descriptor SKIPPED.
C1_Idempotent ==
    (runs = Cardinality(Boots) /\ rec[1].pc = "done" /\ ~ext_failed) =>
        \A i \in 1..Len(config) :
            /\ rec[1].state[i] = "SKIPPED"
            /\ AssistantCount(AgentName(config[i])) = 1

\* C2: a run that got past the existing-name lookup ends with every
\* descriptor SKIPPED, DONE or FAILED, whichever descriptors failed: a
\* descriptor is skipped exactly when its name was registered, and every
\* other one whose conversion succeeded had its assistant creation called.
C2_BatchIsolation ==
    \A p \in Procs :
        (Ended(rec[p]) /\ rec[p].idx > 0) =>
            \A i \in 1..Len(config) :
                /\ rec[p].state[i] \in Terminal
                /\ rec[p].state[i] = "SKIPPED"
                      <=> AgentName(config[i]) \in rec[p].existing_names
                /\ (rec[p].state[i] # "SKIPPED" /\ rec[p].cause[i] # "convert")
                      => CallsFor(rec[p], i) # {}

\* a finished run in which a descriptor failed in conversion and a later one
\* reached assistant creation
C2_Witness ==
    /\ rec[1].pc = "done"
    /\ \E i, j \in 1..Len(config) :
          /\ i < j
          /\ rec[1].state[i] = "FAILED"
          /\ rec[1].cause[i] = "convert"
          /\ CallsFor(rec[1], j) # {}

\* the loop is at a descriptor whose name was registered
AtRegistered(r) ==
    /\ r.pc = "loop"
    /\ r.idx <= Len(config)
    /\ AgentName(config[r.idx]) \in r.existing_names

\* C3: processing a descriptor whose name is among the registered names
\* writes nothing: the step that handles it leaves every table as it was and
\* settles it SKIPPED, and no knowledge-base creation and no assistant
\* creation is ever attempted for it.
C3_SkipWritesNothing ==
    /\ [](\A p \in Procs : \A i \in 1..Len(rec[p].state) :
             AgentName(config[i]) \in rec[p].existing_names =>
                 /\ CallsFor(rec[p], i) = {}
                 /\ AttemptsFor(rec[p], i) = {}
                 /\ rec[p].state[i] \in {"PENDING", "SKIPPED"})
    /\ [][\A p \in Procs :
             (AtRegistered(rec[p]) /\ rec'[p] # rec[p]) =>
                 /\ dbvars' = dbvars
                 /\ rec'[p].state[rec[p].idx] = "SKIPPED"]_vars

\* a skipped descriptor that names a knowledge base, with files, that the
\* store does not hold
C3_Witness ==
    \E i \in 1..Len(rec[1].state) :
        /\ rec[1].state[i] = "SKIPPED"
        /\ \E k \in 1..Len(config[i].knowledge_bases) :
              /\ config[i].knowledge_bases[k].files = "list"
              /\ config[i].knowledge_bases[k].name \notin KBNamesIn(knowledge_bases)

\* C4: the request handed to assistant creation lists the reserved RAG token
\* exactly when a knowledge base of the descriptor resolved (it was found in
\* the store, or created through the API or the PENDING insert).
C4_RagIffResolved ==
    \A p \in Procs : \A k \in 1..Len(rec[p].create_calls) :
        LET call == rec[p].create_calls[k]
        IN  (RAG \in Range(call.va.tools)) <=> (call.resolved # {})

\* C5: a descriptor without knowledge bases never has the reserved RAG token
\* in the tool list handed to assistant creation.
C5_NoRagWithoutKbs ==
    \A p \in Procs : \A k \in 1..Len(rec[p].create_calls) :
        LET call == rec[p].create_calls[k]
        IN  config[call.idx].knowledge_bases = << >>
                => RAG \notin Range(call.va.tools)

\* assistant creation was called for a descriptor that has no knowledge
\* bases and names builtin::rag among its mcp_tools
C5_Witness ==
    \E k \in 1..Len(rec[1].create_calls) :
        LET d == config[rec[1].create_calls[k].idx]
        IN  /\ d.knowledge_bases = << >>
            /\ RAG \in Range(d.mcp_tools)

\* C6: a processed descriptor holding a knowledge-base entry without files,
\* for a name the store does not hold, ends with its assistant created and
\* with that name absent from the knowledge_base_ids handed to creation.
C6_MissingFilesExcluded ==
    \A p \in Procs : \A i \in 1..Len(rec[p].state) :
        (rec[p].state[i] \in {"DONE", "FAILED"} /\ rec[p].cause[i] # "convert") =>
            \A k \in 1..Len(config[i].knowledge_bases) :
                LET kb == config[i].knowledge_bases[k]
                IN  (kb.files = "none" /\ kb.name \notin KBNamesIn(knowledge_bases)) =>
                        /\ rec[p].state[i] = "DONE"
                        /\ \A c \in CallsFor(rec[p], i) :
                              kb.name \notin
                                 Range(rec[p].create_calls[c].va.knowledge_base_ids)

\* entries of the current descriptor the resolver has to create
ToCreate(r) ==
    {k \in 1..Len(Current(r).knowledge_bases) :
        KbDecision(Current(r).knowledge_bases[k], r.va_create.knowledge_base_ids,
                   r.existing_kbs) = "create"}

\* C7: a knowledge base whose API creation failed and whose fallback insert
\* went through is in the store with status PENDING; whatever each creation
\* did, the resolver goes on to every remaining entry (it never raises once
\* it has attempted a creation, and it leaves the loop with one attempt per
\* entry to create), and assistant creation is called for the descriptor.
C7_KbDegrades ==
    \A p \in Procs :
        LET r == rec[p]
        IN  /\ \A k \in 1..Len(r.kb_attempts) :
                  /\ r.kb_attempts[k].outcome = "pending" =>
                        BagIn(KBRow(r.kb_attempts[k].name, "PENDING"), knowledge_bases)
                  /\ r.kb_attempts[k].idx < r.idx =>
                        CallsFor(r, r.kb_attempts[k].idx) # {}
            /\ (r.pc = "create" /\ ~r.resolver_raised
                   /\ r.va_create.knowledge_base_ids # << >>) =>
                  Cardinality(AttemptsFor(r, r.idx)) = Cardinality(ToCreate(r))
            /\ r.resolver_raised => AttemptsFor(r, r.idx) = {}
            /\ \A c \in 1..Len(r.create_calls) :
                  r.create_calls[c].resolver_raised =>
                     AttemptsFor(r, r.create_calls[c].idx) = {}

\* one descriptor: a creation whose fallback insert failed too, then a later
\* entry stored PENDING, then the call of assistant creation
C7_Witness ==
    \E j, k \in 1..Len(rec[1].kb_attempts) :
        /\ j < k
        /\ rec[1].kb_attempts[j].idx = rec[1].kb_attempts[k].idx
        /\ rec[1].kb_attempts[j].outcome = "failed"
        /\ rec[1].kb_attempts[k].outcome = "pending"
        /\ CallsFor(rec[1], rec[1].kb_attempts[j].idx) # {}

\* the request of a descriptor whose resolver raised: no knowledge bases, no
\* RAG token, the converted tools otherwise as they were
Degraded(va, yaml_agent) ==
    /\ va.knowledge_base_ids = << >>
    /\ RAG \notin Range(va.tools)
    /\ va.tools = ConvertTools(yaml_agent.mcp_tools)

\* C8: when the resolver itself raises, the next thing the reconciler does
\* for the descriptor is to call assistant creation, with a request that has
\* no knowledge_base_ids and no RAG token and keeps every other tool.
C8_ResolverFailureDegrades ==
    /\ [](\A p \in Procs :
             /\ rec[p].resolver_raised =>
                   /\ rec[p].pc = "create"
                   /\ Degraded(rec[p].va_create, Current(rec[p]))
             /\ \A c \in 1..Len(rec[p].create_calls) :
                   rec[p].create_calls[c].resolver_raised =>
                      Degraded(rec[p].create_calls[c].va,
                               config[rec[p].create_calls[c].idx]))
    /\ [][\A p \in Procs :
             (rec[p].resolver_raised /\ rec'[p] # rec[p]) =>
                 /\ Len(rec'[p].create_calls) = Len(rec[p].create_calls) + 1
                 /\ LET call == rec'[p].create_calls[Len(rec'[p].create_calls)]
                    IN  /\ call.idx = rec[p].idx
                        /\ call.resolver_raised
                        /\ call.va = rec[p].va_create]_vars

\* assistant creation was called after the resolver raised for a descriptor
\* that names knowledge bases and another tool
C8_Witness ==
    \E c \in 1..Len(rec[1].create_calls) :
        LET call == rec[1].create_calls[c]
        IN  /\ call.resolver_raised
            /\ call.va.tools = << "mcp::t1" >>
            /\ config[call.idx].knowledge_bases # << >>

HasDuplicate(seq) == \E i, j \in 1..Len(seq) : i # j /\ seq[i] = seq[j]

C10_UpdateReplaces ==
    (http.op = "update" /\ http.pc = "done") =>
        IF http.id \in AssistantIds
        THEN /\ Targets(LinksOfKB(http.id), "knowledge_base_id")
                   = Range(http.va.knowledge_base_ids)
             /\ Targets(LinksOfTool(http.id), "mcp_server_id")
                   = Range(http.va.mcp_server_ids)
        ELSE http.status = 404

\* C11: links never outlive their assistant; once delete(id) has answered 204
\* the id has no assistant and no link and read(id) answers 404; a delete
\* leaves the knowledge bases, the tool servers and the model servers as they
\* were, answers 204 for an existing id and 404, changing nothing, for an
\* absent one.
C11_DeleteCascades ==
    /\ [](\A r \in BagToSet(va_kb_links) \cup BagToSet(va_tool_links) :
             r.virtual_assistant_id \in AssistantIds)
    /\ []((http.op = "delete" /\ http.pc = "done" /\ http.status = 204) =>
             /\ http.id \notin AssistantIds
             /\ LinksOfKB(http.id) = {}
             /\ LinksOfTool(http.id) = {}
             /\ ReadStatus(http.id) = 404)
    /\ [][(http'.op = "delete" /\ http' # http) =>
             /\ knowledge_bases' = knowledge_bases
             /\ catalog' = catalog
             /\ IF http'.id \in AssistantIds
                THEN http'.status = 204 /\ http'.id \notin AssistantIds'
                ELSE http'.status = 404 /\ dbvars' = dbvars]_vars

\* an assistant the second client saw linked to a knowledge base and to a
\* tool server has been deleted, and both targets are still in their tables
C11_Witness ==
    /\ http.op = "delete"
    /\ http.status = 204
    /\ reader.pc = "done"
    /\ reader.id = http.id
    /\ \E k \in reader.kb_ids : k \in KBNamesIn(knowledge_bases)
    /\ \E m \in reader.mcp_ids : m \in mcp_servers

\* C12: get_virtual_assistant_components answers 404 when the assistant does
\* not exist, and when it exists but no model server has its model_name.
C12_ComponentsNotFound ==
    (/\ http.op = "components"
     /\ http.pc = "done"
     /\ (http.id \notin AssistantIds \/ ModelName \notin model_servers)) =>
        http.status = 404

\* the ids an assistant is linked to in the state a step leads to
KbTargetsAfter(id) ==
    {r.knowledge_base_id :
        r \in {x \in BagToSet(va_kb_links') : x.virtual_assistant_id = id}}

ToolTargetsAfter(id) ==
    {r.mcp_server_id :
        r \in {x \in BagToSet(va_tool_links') : x.virtual_assistant_id = id}}

\* C13: while an update of an assistant is in progress every step leaves the
\* assistant with either its complete old links or the complete reference
\* lists of the request, in both link tables at once; the second client's
\* queries return the committed rows, so a listing made inside the update
\* shows the assistant's links complete, and not empty when it has some.
C13_AtomicReplace ==
    /\ [][(http.op = "update" /\ http.pc = "replace") =>
             \/ /\ KbTargetsAfter(http.id)
                      = Targets(LinksOfKB(http.id), "knowledge_base_id")
                /\ ToolTargetsAfter(http.id)
                      = Targets(LinksOfTool(http.id), "mcp_server_id")
             \/ /\ KbTargetsAfter(http.id) = Range(http.va.knowledge_base_ids)
                /\ ToolTargetsAfter(http.id) = Range(http.va.mcp_server_ids)]_vars
    /\ [][/\ (reader.pc = "kb" /\ reader'.pc = "mcp") =>
                reader'.kb_ids = Targets(LinksOfKB(reader.id), "knowledge_base_id")
          /\ (reader.pc = "mcp" /\ reader'.pc = "done") =>
                reader'.mcp_ids = Targets(LinksOfTool(reader.id), "mcp_server_id")]_vars
    /\ []((/\ reader.pc = "done"
           /\ reader.during = << "update", "replace", reader.id >>
           /\ http.op = "update"
           /\ http.pc = "replace"
           /\ http.id = reader.id) =>
              /\ reader.kb_ids = Targets(LinksOfKB(reader.id), "knowledge_base_id")
              /\ reader.mcp_ids = Targets(LinksOfTool(reader.id), "mcp_server_id"))

\* the second client listed a linked assistant entirely inside an update of
\* it whose request has reference lists that are not empty
C13_Witness ==
    /\ http.op = "update"
    /\ http.pc = "replace"
    /\ reader.pc = "done"
    /\ reader.id = http.id
    /\ reader.during = << "update", "replace", http.id >>
    /\ reader.kb_ids # {}
    /\ http.va.mcp_server_ids # << >>

\* C14: between the two commits of a create request the assistant is in the
\* table and has no link row, whatever reference lists the request carries,
\* so a listing made there shows the new assistant without links.
C14_CreateWindow ==
    (http.op = "create" /\ http.pc = "links") =>
        /\ http.id \in AssistantIds
        /\ LinksOfKB(http.id) = {}
        /\ LinksOfTool(http.id) = {}

\* the second client listed the new assistant of a create request with
\* non-empty reference lists between its two commits, and saw no link
C14_Witness ==
    /\ http.op = "create"
    /\ http.pc = "links"
    /\ http.va.knowledge_base_ids # << >>
    /\ http.va.mcp_server_ids # << >>
    /\ reader.pc = "done"
    /\ reader.id = http.id
    /\ reader.during = << "create", "links", http.id >>
    /\ reader.kb_ids = {}
    /\ reader.mcp_ids = {}

\* rows of knowledge_bases with one vector_db_name
KBRowsNamed(name) ==
    {r \in BagToSet(knowledge_bases) : r.vector_db_name = name}

\* C15: a finished run over a single descriptor, not registered, with one
\* knowledge base that has files, against an empty store, whose creation
\* went through (by the API or by the PENDING insert): the store holds
\* exactly one row of that name, PENDING when the API call failed, and
\* exactly one assistant of the descriptor's name, and the request handed to
\* creation has the RAG token and the knowledge base among its ids.
C15_RagScenario ==
    (/\ rec[1].pc = "done"
     /\ Len(config) = 1
     /\ Len(config[1].knowledge_bases) = 1
     /\ config[1].knowledge_bases[1].files = "list"
     /\ rec[1].state[1] # "SKIPPED"
     /\ \E k \in AttemptsFor(rec[1], 1) : rec[1].kb_attempts[k].outcome # "failed") =>
        LET kb == config[1].knowledge_bases[1].name
        IN  /\ Cardinality(KBRowsNamed(kb)) = 1
            /\ CopiesIn(CHOOSE r \in KBRowsNamed(kb) : TRUE, knowledge_bases) = 1
            /\ \A k \in AttemptsFor(rec[1], 1) :
                  rec[1].kb_attempts[k].outcome = "pending" =>
                     BagIn(KBRow(kb, "PENDING"), knowledge_bases)
            /\ \A c \in CallsFor(rec[1], 1) :
                  /\ RAG \in Range(rec[1].create_calls[c].va.tools)
                  /\ kb \in Range(rec[1].create_calls[c].va.knowledge_base_ids)
            /\ Cardinality({a \in virtual_assistants :
                               a.name = AgentName(config[1])}) = 1

\* C16: the store never holds two knowledge bases of one vector_db_name, and
\* the resolver attempts a creation only for a name the store does not hold
\* at that moment.
C16_KbDeduplicated ==
    /\ [](\A name \in KBNames :
             /\ Cardinality(KBRowsNamed(name)) <= 1
             /\ \A r \in KBRowsNamed(name) : CopiesIn(r, knowledge_bases) = 1)
    /\ [][\A p \in Procs :
             Len(rec'[p].kb_attempts) > Len(rec[p].kb_attempts) =>
                rec'[p].kb_attempts[Len(rec'[p].kb_attempts)].name
                   \notin KBNamesIn(knowledge_bases)]_vars

\* the moves of a descriptor's state
Allowed ==
    {<< "PENDING", "SKIPPED" >>, << "PENDING", "RESOLVING" >>,
     << "RESOLVING", "MATERIALIZING" >>, << "RESOLVING", "FAILED" >>,
     << "MATERIALIZING", "DONE" >>, << "MATERIALIZING", "FAILED" >>}

\* C17 as stated: when the run has ended every descriptor of the list is
\* DONE, SKIPPED or FAILED.
C17_AllSettled ==
    Ended(rec[1]) =>
        \A i \in 1..Len(config) :
            /\ i <= Len(rec[1].state)
            /\ rec[1].state[i] \in Terminal

\* C17, amended: every awaited call returning, the run ends; if the lookup
\* of the existing names succeeded it ends with every descriptor DONE,
\* SKIPPED or FAILED, and if the lookup raised it ends with every descriptor
\* still PENDING; a descriptor's state moves only along PENDING -> RESOLVING
\* -> MATERIALIZING -> DONE, with SKIPPED entered from PENDING only, FAILED
\* from RESOLVING or MATERIALIZING, and DONE only in the step in which the
\* creation call for it returned.
C17_Terminates ==
    /\ <>Ended(rec[1])
    /\ [](rec[1].pc = "done" =>
             \A i \in 1..Len(config) : rec[1].state[i] \in Terminal)
    /\ [](rec[1].pc = "raised" =>
             \A i \in 1..Len(config) : rec[1].state[i] = "PENDING")
    /\ [][Len(rec'[1].state) = Len(rec[1].state) =>
             \A i \in 1..Len(rec[1].state) :
                 rec'[1].state[i] # rec[1].state[i] =>
                    /\ << rec[1].state[i], rec'[1].state[i] >> \in Allowed
                    /\ rec'[1].state[i] = "DONE" =>
                          /\ CallsFor(rec[1], i) = {}
                          /\ CallsFor(rec'[1], i) # {}
                          /\ rec'[1].cause[i] = ""]_vars

\* a finished run that skipped one descriptor and took another through
\* RESOLVING and MATERIALIZING to the creation call
C17_Witness ==
    /\ rec[1].pc = "done"
    /\ \E i, j \in 1..Len(config) :
          /\ rec[1].state[i] = "SKIPPED"
          /\ rec[1].state[j] \in {"DONE", "FAILED"}
          /\ CallsFor(rec[1], j) # {}

\* C18: a knowledge-base creation is attempted only for the descriptor the
\* loop is at, inside the resolver and before any creation call for that
\* descriptor; a creation call is made only for the descriptor the loop is
\* at, after the resolver has left, and after the calls of all earlier
\* descriptors; every descriptor before the current one is settled and every
\* one after it is untouched.
C18_Sequential ==
    /\ [](\A p \in Procs : \A i \in 1..Len(rec[p].state) :
             /\ i < rec[p].idx => rec[p].state[i] \in Terminal
             /\ i > rec[p].idx => rec[p].state[i] = "PENDING")
    /\ [][\A p \in Procs :
             /\ Len(rec'[p].kb_attempts) > Len(rec[p].kb_attempts) =>
                   /\ rec[p].pc = "kbloop"
                   /\ rec'[p].kb_attempts[Len(rec'[p].kb_attempts)].idx = rec[p].idx
                   /\ CallsFor(rec[p], rec[p].idx) = {}
                   /\ \A c \in 1..Len(rec[p].create_calls) :
                         rec[p].create_calls[c].idx < rec[p].idx
             /\ Len(rec'[p].create_calls) > Len(rec[p].create_calls) =>
                   /\ rec[p].pc = "create"
                   /\ rec'[p].create_calls[Len(rec'[p].create_calls)].idx = rec[p].idx
                   /\ \A c \in 1..Len(rec[p].create_calls) :
                         rec[p].create_calls[c].idx < rec[p].idx
                   /\ \A k \in 1..Len(rec[p].kb_attempts) :
                         rec[p].kb_attempts[k].idx <= rec[p].idx
                   /\ Len(rec'[p].kb_attempts) = Len(rec[p].kb_attempts)]_vars

\* two descriptors that each had a knowledge base created and then their
\* creation call
C18_Witness ==
    /\ rec[1].pc = "done"
    /\ \E i, j \in 1..Len(config) :
          /\ i < j
          /\ AttemptsFor(rec[1], i) # {} /\ CallsFor(rec[1], i) # {}
          /\ AttemptsFor(rec[1], j) # {} /\ CallsFor(rec[1], j) # {}

\* C19: two runs that both read the existing names before either called
\* assistant creation, and both called it for a descriptor, every external
\* call having succeeded, leave two assistants of that descriptor's name.
C19_RaceDuplicates ==
    (/\ \A p \in Procs : rec[p].pc = "done"
     /\ ~ext_failed) =>
        \A i \in 1..Len(config) :
            (\A p \in Procs : CallsFor(rec[p], i) # {}) =>
                Cardinality({a \in virtual_assistants :
                               a.name = AgentName(config[i])}) = 2

\* occurrences of the reserved token in a tool list
RagCount(tools) == Cardinality({i \in 1..Len(tools) : tools[i] = RAG})

\* C20: for every descriptor the run converts, the output of
\* convert_yaml_agent_to_schema has the reserved token exactly when its
\* knowledge_base_ids is not empty, and at most once; the request built from
\* it takes the resolver branch or the plain branch, never one of the two
\* warning branches; and the step after a conversion that succeeded enters
\* the resolver exactly when the descriptor names a knowledge base.
C20_ConversionInvariant ==
    /\ [](\A p \in Procs :
             rec[p].pc = "convert" =>
                LET out == convert_yaml_agent_to_schema(Current(rec[p]))
                IN  /\ (RAG \in Range(out.tools)) <=> (out.knowledge_base_ids # << >>)
                    /\ RagCount(out.tools) <= 1
                    /\ RagBranch(VirtualAssistantCreate(out)) \in {"resolve", "plain"})
    /\ [][\A p \in Procs :
             (rec[p].pc = "convert" /\ rec'[p].pc \in {"resolve", "create"}) =>
                /\ RagBranch(rec'[p].va_create) \in {"resolve", "plain"}
                /\ rec'[p].pc = "resolve"
                      <=> \E k \in 1..Len(Current(rec[p]).knowledge_bases) :
                             Current(rec[p]).knowledge_bases[k].name # Missing]_vars

\* assistant creation was called, the resolver not having raised, for a
\* descriptor that names builtin::rag among its mcp_tools and has a
\* knowledge base: its request carries the token once
C20_Witness ==
    \E c \in 1..Len(rec[1].create_calls) :
        LET call == rec[1].create_calls[c]
        IN  /\ ~call.resolver_raised
            /\ RAG \in Range(config[call.idx].mcp_tools)
            /\ config[call.idx].knowledge_bases # << >>
            /\ RagCount(call.va.tools) = 1

\* a run between client.agents.list() and its last descriptor
InLoop(r) == r.pc \notin {"idle", "done", "raised"}

\* C21: during a run existing_names keeps the value read before the first
\* descriptor, which is the registry's listing; a descriptor the run has
\* settled is SKIPPED exactly when its name is in existing_names; and a
\* descriptor that follows, in the same run, a descriptor of the same name
\* for which assistant creation was called is not skipped.
C21_SnapshotSkip ==
    /\ [][\A p \in Procs :
             InLoop(rec[p]) => rec'[p].existing_names = rec[p].existing_names]_vars
    /\ [](\A p \in Procs :
             /\ InLoop(rec[p]) => rec[p].existing_names = llama_agents
             /\ \A i \in 1..Len(rec[p].state) :
                   i < rec[p].idx =>
                      (rec[p].state[i] = "SKIPPED"
                         <=> AgentName(config[i]) \in rec[p].existing_names)
             /\ \A i, j \in 1..Len(rec[p].state) :
                   (/\ i < j
                    /\ j < rec[p].idx
                    /\ AgentName(config[i]) = AgentName(config[j])
                    /\ CallsFor(rec[p], i) # {}) =>
                       /\ rec[p].state[j] # "SKIPPED"
                       /\ AgentName(config[j]) \notin rec[p].existing_names)

\* a finished run over two descriptors of one name, absent from the
\* listing: creation was called for the first and for the second
C21_Witness ==
    /\ rec[1].pc = "done"
    /\ Len(config) = 2
    /\ AgentName(config[1]) = AgentName(config[2])
    /\ AgentName(config[1]) \notin rec[1].existing_names
    /\ CallsFor(rec[1], 1) # {}
    /\ CallsFor(rec[1], 2) # {}
    /\ rec[1].state[2] # "SKIPPED"

====
